---- MODULE Spec2Model ----
(***************************************************************************)
(* Model of script/technical-interview-042022.py: the CSV writer writeCSV, *)
(* the orchestration getFiresByCountry with its two nested helpers, and    *)
(* the top-level run with its try/except boundary.                         *)
(*                                                                         *)
(* The geoprocessing library is modelled on a one-dimensional planar       *)
(* reference: the x axis is divided into cells CellKm kilometres wide, a   *)
(* boundary polygon is an interval of whole cells [xmin, xmax] carrying a  *)
(* COUNTRY value, its boundary lines are its two end points, and a fire    *)
(* point is projected to the place dist kilometres west of the east edge   *)
(* of the cell its longitude names: no point lies on a boundary line, a    *)
(* point is exactly dist away from its cell's east edge and farther than   *)
(* dist from every other edge.  Planar distance is |x1 - x2|.              *)
(***************************************************************************)
EXTENDS Integers, Sequences, FiniteSets, TLC

\* ---------------------------------------------------------------- bounds
MaxFires == 2
MaxPolys == 2

\* ------------------------------------------------------ program constants
dist == 5
x_fld == "longitude"
confidence_fld == "confidence"
country_id == "COUNTRY"

\* --------------------------------------------------------- input domains
CellKm == 4 * dist
Cells == {0, 1}
Confidences == {60, 90}
\* COUNTRY values, listed in ascending (sort) order
Countries == <<"A", "B">>

None == << >>

\* ------------------------------------------------------------- utilities
Range(s) == {s[i] : i \in DOMAIN s}

Abs(n) == IF n < 0 THEN 0 - n ELSE n

SetMax(S) == CHOOSE m \in S : \A n \in S : n <= m

\* The sum of field fld over the rows of a table.
RECURSIVE FieldSum(_, _)
FieldSum(tab, fld) ==
  IF tab = {} THEN 0
  ELSE LET e == CHOOSE e \in tab : TRUE IN e[fld] + FieldSum(tab \ {e}, fld)

SeqsUpTo(S, n) == UNION {[1..k -> S] : k \in 0..n}

\* ------------------------------------------------------------ the inputs
FireRecords == [longitude : Cells, confidence : Confidences]

\* The extents a boundary polygon may have, as <<first cell, last cell>>:
\* every run of the cells fires fall in, and the cell east of them, where no
\* fire falls.
Extents ==
  {e \in Cells \X Cells : e[1] <= e[2]}
    \cup {<<c, c>> : c \in {d + 1 : d \in {m \in Cells : \A n \in Cells : n <= m}}}

Polygons ==
  {[xmin |-> e[1] * CellKm, xmax |-> (e[2] + 1) * CellKm, COUNTRY |-> Countries[c]] :
     <<e, c>> \in Extents \X (DOMAIN Countries)}

BoundaryLayers == {Range(s) : s \in SeqsUpTo(Polygons, MaxPolys)}

\* ------------------------------------------------------------- the state
VARIABLES
  in_csv,          \* the rows of the fire CSV
  in_bnd,          \* the polygons of the boundary layer
  findAvgDist,     \* the two feature flags of getFiresByCountry
  findNearBorder,
  pc,              \* the statement the run is at
  exc,             \* the exception raised in this run, or "none"
  exc_at,          \* the step that raised it, or "none"
  log,             \* the log records of this run (the console handler)
  files,           \* the output directory: report |-> file
  disk_before,     \* the output directory as the run found it
  rerun,           \* whether this is a second run on the same inputs
  xy_fc,           \* in_memory\xy_fc
  fires_pnt,       \* scratchGDB\fire_pnt
  check_cnt,
  bnd_w_fire,      \* the boundary layer's selection
  sum_within,      \* in_memory\fire_by_bnd
  stat_tab,        \* in_memory\stat_tab
  near,            \* in_memory\near_tab
  avg_dist,        \* scratchGDB\avg_dist
  bnd_lines,       \* in_memory\bnd_lines
  select_fires,    \* the point layer's selection
  csv_call,        \* the arguments of a writeCSV call made on its own
  csv_out          \* the file that call leaves

inputs == <<in_csv, in_bnd, findAvgDist, findNearBorder>>
control == <<pc, exc, exc_at, log>>
disk == <<files, disk_before, rerun>>
layers == <<xy_fc, fires_pnt, check_cnt, bnd_w_fire, sum_within, stat_tab,
            near, avg_dist, bnd_lines, select_fires>>
unit == <<csv_call, csv_out>>
vars == <<inputs, control, disk, layers, unit>>

\* ----------------------------------------------------------- the reports
Reports == <<"countByCountry", "avgDistToAllFires", "5KilometersToBorders">>

NoFile == [exists |-> FALSE, rows |-> << >>]

\* ------------------------------------------------- writeCSV (lines 26-35)
\* open(out_csv, 'w'): the file is created or truncated.
AppendOpen(prev) == prev.rows
Open(prev) == << >>

\* [r for r in row]: the cursor's values for scur_flds, in that order.
rowVals(rec, scur_flds) == [i \in 1..Len(scur_flds) |-> rec[scur_flds[i]]]

\* The file after the header and the first k records of in_tab are written.
writePrefix(prev, csv_cols, in_tab, scur_flds, k) ==
  [exists |-> TRUE,
   rows |-> Open(prev) \o <<csv_cols>>
              \o [i \in 1..k |-> rowVals(in_tab[i], scur_flds)]]

writeCSV(prev, csv_cols, in_tab, scur_flds) ==
  writePrefix(prev, csv_cols, in_tab, scur_flds, Len(in_tab))

\* ------------------------------------------- geoprocessing (lines 43-109)
\* XYTableToPoint_management: one point feature per CSV row, attributes kept.
XYTableToPoint(csv, x) ==
  [fields |-> <<x_fld, confidence_fld>>,
   rows |-> [i \in 1..Len(csv) |->
               [OBJECTID |-> i, Shape |-> csv[i][x],
                longitude |-> csv[i].longitude, confidence |-> csv[i].confidence]]]

\* Project_management: the geometry moves into the boundary layer's planar
\* reference, the attributes are unchanged; the output feature class is
\* replaced (arcpy.env.overwriteOutput, line 24).
ProjectAppending(fc) ==
  [fields |-> fc.fields,
   rows |-> fires_pnt.rows \o
            [i \in DOMAIN fc.rows |->
               [fc.rows[i] EXCEPT !.Shape = @ * CellKm + (CellKm - dist),
                                  !.OBJECTID = @ + Len(fires_pnt.rows)]]]
Project(fc) ==
  [fc EXCEPT !.rows =
     [i \in DOMAIN fc.rows |->
        [fc.rows[i] EXCEPT !.Shape = @ * CellKm + (CellKm - dist)]]]

Within(pt, poly) == poly.xmin < pt.Shape /\ pt.Shape < poly.xmax

\* SelectLayerByLocation(fires_pnt, 'WITHIN', in_bnd, ..., 'INVERT'):
\* the OBJECTIDs of the points within no boundary polygon.
SelectNotWithin(pnts, bnds) ==
  {r.OBJECTID : r \in {q \in Range(pnts.rows) : ~ \E b \in bnds : Within(q, b)}}

\* SelectLayerByLocation(in_bnd, 'CONTAINS', fires_pnt): the selected polygons.
SelectContaining(bnds, pnts) ==
  {b \in bnds : \E r \in Range(pnts.rows) : Within(r, b)}

\* SummarizeWithin_analysis: one row per input polygon, with the number of
\* points within it and the MAX of conf_lvl over them.
SummarizeWithin(polys, pnts, conf_lvl) ==
  {[COUNTRY |-> b.COUNTRY, xmin |-> b.xmin, xmax |-> b.xmax,
    Point_Count |-> Cardinality({r \in Range(pnts.rows) : Within(r, b)}),
    max_confidence |->
      LET inside == {r \in Range(pnts.rows) : Within(r, b)}
      IN IF inside = {} THEN 0 ELSE SetMax({r[conf_lvl] : r \in inside})] :
   b \in polys}

\* Statistics_analysis with SUM and MAX and a case field: one row per case
\* value, in ascending order of the case value.
caseRowMin(tab, c) ==
  [COUNTRY |-> c,
   SUM_Point_Count |-> FieldSum({r \in tab : r.COUNTRY = c}, "Point_Count"),
   MAX_max_confidence |->
     CHOOSE m \in {r.max_confidence : r \in {q \in tab : q.COUNTRY = c}} :
       \A n \in {r.max_confidence : r \in {q \in tab : q.COUNTRY = c}} : m <= n]
caseRowFrequency(tab, c) ==
  [COUNTRY |-> c,
   SUM_Point_Count |-> Cardinality({r \in tab : r.COUNTRY = c}),
   MAX_max_confidence |-> SetMax({r.max_confidence : r \in {q \in tab : q.COUNTRY = c}})]
caseRow(tab, c) ==
  [COUNTRY |-> c,
   SUM_Point_Count |-> FieldSum({r \in tab : r.COUNTRY = c}, "Point_Count"),
   MAX_max_confidence |-> SetMax({r.max_confidence : r \in {q \in tab : q.COUNTRY = c}})]

RECURSIVE caseRows(_, _)
caseRows(tab, cases) ==
  IF cases = << >> THEN << >>
  ELSE (IF \E r \in tab : r.COUNTRY = Head(cases)
        THEN <<caseRow(tab, Head(cases))>> ELSE << >>)
         \o caseRows(tab, Tail(cases))

StatisticsByCase(tab) == caseRows(tab, Countries)

\* GenerateNearTable_analysis(pnts, pnts, closest='ALL', method='PLANAR'):
\* one row per ordered pair of features; with the same layer as input and
\* near features, a feature is not a near candidate of itself.
nearPairsWithSelf(pnts) == (DOMAIN pnts.rows) \X (DOMAIN pnts.rows)
nearPairs(pnts) ==
  {p \in (DOMAIN pnts.rows) \X (DOMAIN pnts.rows) : p[1] # p[2]}

GenerateNearTable(pnts) ==
  {[IN_FID |-> p[1], NEAR_FID |-> p[2],
    NEAR_DIST |-> Abs(pnts.rows[p[1]].Shape - pnts.rows[p[2]].Shape)] :
   p \in nearPairs(pnts)}

\* Statistics_analysis(near, ..., [['NEAR_DIST', 'MEAN']], 'IN_FID'): one row
\* per IN_FID; the mean is kept as the exact fraction <<sum, count>>.
StatisticsMean(near_tab) ==
  {[IN_FID |-> f,
    FREQUENCY |-> Cardinality({r \in near_tab : r.IN_FID = f}),
    MEAN_NEAR_DIST |-> <<FieldSum({r \in near_tab : r.IN_FID = f}, "NEAR_DIST"),
                         Cardinality({r \in near_tab : r.IN_FID = f})>>] :
   f \in {r.IN_FID : r \in near_tab}}

\* JoinField_management(pnts, 'OBJECTID', avg_dist, 'IN_FID', ['MEAN_NEAR_DIST']):
\* the field is appended; a feature with no matching row gets a null.
JoinField(pnts, tab) ==
  [fields |-> Append(pnts.fields, "MEAN_NEAR_DIST"),
   rows |-> [i \in DOMAIN pnts.rows |->
               pnts.rows[i] @@
               ("MEAN_NEAR_DIST" :>
                  IF \E r \in tab : r.IN_FID = pnts.rows[i].OBJECTID
                  THEN (CHOOSE r \in tab : r.IN_FID = pnts.rows[i].OBJECTID).MEAN_NEAR_DIST
                  ELSE None)]]

\* DeleteField_management(pnts, 'MEAN_NEAR_DIST')
KeepField(pnts, fld) == pnts
DeleteField(pnts, fld) ==
  [fields |-> SelectSeq(pnts.fields, LAMBDA f : f # fld),
   rows |-> [i \in DOMAIN pnts.rows |->
               [f \in DOMAIN pnts.rows[i] \ {fld} |-> pnts.rows[i][f]]]]

\* [f.name for f in arcpy.ListFields(pnts) if not f.required]
ListFields(pnts) == pnts.fields

\* final_flds (line 89)
finalFlds(all_flds) ==
  [i \in DOMAIN all_flds |->
     IF all_flds[i] = "MEAN_NEAR_DIST"
     THEN "Average Dist. to All Other Fires (meters)" ELSE all_flds[i]]

\* PolygonToLine_management: the boundary lines of the polygons handed in.
PolygonToLine(bnds) == UNION {{b.xmin, b.xmax} : b \in bnds}

\* SelectLayerByLocation(pnts, 'WITHIN_A_DISTANCE', bnd_lines, '5 KILOMETERS'):
\* the OBJECTIDs of the points at most the distance away from a line.
SelectWithinDistance(pnts, lines, d) ==
  {r.OBJECTID : r \in {q \in Range(pnts.rows) : \E l \in lines : Abs(q.Shape - l) <= d}}

\* The rows a SearchCursor on the feature class yields (line 31): fires_pnt
\* names the feature class, which carries no selection, so every row.
cursorRowsWithin(pnts) ==
  SelectSeq(pnts.rows, LAMBDA r : \E b \in in_bnd : Within(r, b))
cursorRows(pnts) == pnts.rows

\* The rows a SearchCursor on a layer with a selection yields.
SelectedRows(pnts, sel) == SelectSeq(pnts.rows, LAMBDA r : r.OBJECTID \in sel)

\* rename (line 67): keys are the cursor fields, values the CSV header.
renameKeys == <<country_id, "SUM_Point_Count", "MAX_max_confidence">>
renameValues == <<"Country", "Count", "Max Confidence">>


NoLayer == [fields |-> << >>, rows |-> << >>]

Info(msg) == <<"INFO", msg>>
Warning(msg) == <<"WARNING", msg>>
Error(msg) == <<"ERROR", msg>>

\* The steps of getFiresByCountry, in program order.
RunSteps == <<"describe", "xy", "project", "check", "select_bnd", "summarize",
              "statistics", "write_summary", "near", "average", "join",
              "write_avg", "delete", "lines", "select_near", "write_near">>

AvgSteps == {"near", "average", "join", "write_avg", "delete"}
BorderSteps == {"lines", "select_near", "write_near"}
WriteSteps == {"write_summary", "write_avg", "write_near"}

StepNo(step) == CHOOSE i \in DOMAIN RunSteps : RunSteps[i] = step

Skipped(step) ==
  \/ step \in AvgSteps /\ ~ findAvgDist
  \/ step \in BorderSteps /\ ~ findNearBorder

\* The step that follows step: the next one the flags do not skip
\* (lines 72 and 99), or the end of the try block.
Succ(step) ==
  LET later == {i \in DOMAIN RunSteps : i > StepNo(step) /\ ~ Skipped(RunSteps[i])}
  IN IF later = {} THEN "finish"
     ELSE RunSteps[CHOOSE i \in later : \A j \in later : i <= j]

\* Where control goes when step raises: out of getFiresByCountry, to the
\* except clauses of the top-level try.
RaiseResumes(step) == Succ(step)
RaiseTarget(step) == "except"

\* The log records a step emits before its library call.
StepLog(step) ==
  CASE step = "xy" -> <<Info("Converting rows to points...")>>
    [] step = "select_bnd" -> <<Info("Finding boundary shapes containing points...")>>
    [] step = "summarize" ->
         <<Info("Finding point count and maximum confidence level by boundary...")>>
    [] step = "statistics" -> <<Info("Summarizing by COUNTRY")>>
    [] step = "write_summary" -> <<Info("Clean up..."), Info("Creating output CSV...")>>
    [] step = "near" -> <<Info("Finding average distance to all fires..."),
                          Info("Finding distances to all fires...")>>
    [] step = "average" -> <<Info("Averaging distances...")>>
    [] step = "join" -> <<Info("Joining avergae distance...")>>
    [] step = "write_avg" -> <<Info("Creating output CSV...")>>
    [] step = "delete" -> <<Info("Clean up...")>>
    [] step = "lines" -> <<Info("Finding fires within a distance to a border..."),
                           Info("Converting boundaries to lines...")>>
    [] step = "select_near" -> <<Info("Finding points within 5 kilometers to a border...")>>
    [] step = "write_near" -> <<Info("Creating output CSV...")>>
    [] OTHER -> << >>

\* The arguments of the writeCSV call of a write step.
WriteCall(step) ==
  CASE step = "write_summary" ->
         [report |-> Reports[1], csv_cols |-> renameValues,
          in_tab |-> stat_tab, scur_flds |-> renameKeys]
    [] step = "write_avg" ->
         [report |-> Reports[2], csv_cols |-> finalFlds(ListFields(fires_pnt)),
          in_tab |-> cursorRows(fires_pnt), scur_flds |-> ListFields(fires_pnt)]
    [] step = "write_near" ->
         [report |-> Reports[3], csv_cols |-> ListFields(fires_pnt),
          in_tab |-> SelectedRows(fires_pnt, select_fires),
          scur_flds |-> ListFields(fires_pnt)]

NoCall == [prev |-> NoFile, csv_cols |-> << >>, in_tab |-> << >>, scur_flds |-> << >>]

\* ------------------------------------------------------------------ Init
Init ==
  /\ in_csv \in SeqsUpTo(FireRecords, MaxFires)
  /\ in_bnd \in BoundaryLayers
  /\ findAvgDist \in BOOLEAN
  /\ findNearBorder \in BOOLEAN
  /\ pc = "start"
  /\ exc = "none"
  /\ exc_at = "none"
  /\ log = << >>
  /\ files = [r \in Range(Reports) |-> NoFile]
  /\ disk_before = [r \in Range(Reports) |-> NoFile]
  /\ rerun = FALSE
  /\ xy_fc = NoLayer
  /\ fires_pnt = NoLayer
  /\ check_cnt = 0
  /\ bnd_w_fire = {}
  /\ sum_within = {}
  /\ stat_tab = << >>
  /\ near = {}
  /\ avg_dist = {}
  /\ bnd_lines = {}
  /\ select_fires = {}
  /\ csv_call = NoCall
  /\ csv_out = NoFile

\* --------------------------------------------- __main__ (lines 145-162)
Start ==
  /\ pc = "start"
  /\ log' = log \o <<Info("Starting run..."), Info("Finding point count by COUNTRY")>>
  /\ pc' = "describe"
  /\ UNCHANGED <<unit, inputs, exc, exc_at, disk, layers>>

\* ------------------------------------ getFiresByCountry (lines 38-117)
Advance(step) ==
  /\ pc = step
  /\ log' = log \o StepLog(step)
  /\ pc' = Succ(step)
  /\ UNCHANGED <<unit, inputs, exc, exc_at, disk_before, rerun>>

Describe ==
  /\ Advance("describe")
  /\ UNCHANGED <<files, layers>>

ConvertRows ==
  /\ Advance("xy")
  /\ xy_fc' = XYTableToPoint(in_csv, x_fld)
  /\ UNCHANGED <<files, fires_pnt, check_cnt, bnd_w_fire, sum_within, stat_tab,
                 near, avg_dist, bnd_lines, select_fires>>

ProjectPoints ==
  /\ Advance("project")
  /\ fires_pnt' = Project(xy_fc)
  /\ UNCHANGED <<files, xy_fc, check_cnt, bnd_w_fire, sum_within, stat_tab,
                 near, avg_dist, bnd_lines, select_fires>>

CheckAlignment ==
  /\ pc = "check"
  /\ check_cnt' = Cardinality(SelectNotWithin(fires_pnt, in_bnd))
  /\ log' = IF check_cnt' > 0
            THEN log \o <<Warning(ToString(check_cnt')
                                    \o " point(s) fall outside of boundaries!"),
                          Warning("These data will not be included when summing by intersection!")>>
            ELSE log
  /\ pc' = Succ("check")
  /\ UNCHANGED <<unit, inputs, exc, exc_at, disk, xy_fc, fires_pnt, bnd_w_fire,
                 sum_within, stat_tab, near, avg_dist, bnd_lines, select_fires>>

SelectBoundaries ==
  /\ Advance("select_bnd")
  /\ bnd_w_fire' = SelectContaining(in_bnd, fires_pnt)
  /\ UNCHANGED <<files, xy_fc, fires_pnt, check_cnt, sum_within, stat_tab,
                 near, avg_dist, bnd_lines, select_fires>>

Summarize ==
  /\ Advance("summarize")
  /\ sum_within' = SummarizeWithin(bnd_w_fire, fires_pnt, confidence_fld)
  /\ UNCHANGED <<files, xy_fc, fires_pnt, check_cnt, bnd_w_fire, stat_tab,
                 near, avg_dist, bnd_lines, select_fires>>

Statistics ==
  /\ Advance("statistics")
  /\ stat_tab' = StatisticsByCase(sum_within)
  /\ UNCHANGED <<files, xy_fc, fires_pnt, check_cnt, bnd_w_fire, sum_within,
                 near, avg_dist, bnd_lines, select_fires>>

\* A write step that completes: writeCSV returns.
Write(step) ==
  /\ Advance(step)
  /\ LET w == WriteCall(step)
     IN files' = [files EXCEPT ![w.report] =
                    writeCSV(@, w.csv_cols, w.in_tab, w.scur_flds)]

WriteSummary ==
  /\ Write("write_summary")
  /\ UNCHANGED layers

NearTable ==
  /\ Advance("near")
  /\ near' = GenerateNearTable(fires_pnt)
  /\ UNCHANGED <<files, xy_fc, fires_pnt, check_cnt, bnd_w_fire, sum_within,
                 stat_tab, avg_dist, bnd_lines, select_fires>>

AverageDistances ==
  /\ Advance("average")
  /\ avg_dist' = StatisticsMean(near)
  /\ UNCHANGED <<files, xy_fc, fires_pnt, check_cnt, bnd_w_fire, sum_within,
                 stat_tab, near, bnd_lines, select_fires>>

JoinAverage ==
  /\ Advance("join")
  /\ fires_pnt' = JoinField(fires_pnt, avg_dist)
  /\ UNCHANGED <<files, xy_fc, check_cnt, bnd_w_fire, sum_within, stat_tab,
                 near, avg_dist, bnd_lines, select_fires>>

WriteAvgDist ==
  /\ Write("write_avg")
  /\ UNCHANGED layers

DropJoinedField ==
  /\ Advance("delete")
  /\ fires_pnt' = DeleteField(fires_pnt, "MEAN_NEAR_DIST")
  /\ UNCHANGED <<files, xy_fc, check_cnt, bnd_w_fire, sum_within, stat_tab,
                 near, avg_dist, bnd_lines, select_fires>>

\* getFiresWithinDistToBorder(fires_pnt, bnd_w_fire) (line 117): bnds is the
\* boundary layer with its selection, so only the selected polygons convert.
BoundaryLines ==
  /\ Advance("lines")
  /\ bnd_lines' = PolygonToLine(bnd_w_fire)
  /\ UNCHANGED <<files, xy_fc, fires_pnt, check_cnt, bnd_w_fire, sum_within,
                 stat_tab, near, avg_dist, select_fires>>

SelectNearBorder ==
  /\ Advance("select_near")
  /\ select_fires' = SelectWithinDistance(fires_pnt, bnd_lines, dist)
  /\ UNCHANGED <<files, xy_fc, fires_pnt, check_cnt, bnd_w_fire, sum_within,
                 stat_tab, near, avg_dist, bnd_lines>>

WriteNearBorder ==
  /\ Write("write_near")
  /\ UNCHANGED layers

\* ------------------------------------------------------------- failures
\* A library call raises arcpy.ExecuteError; the step has no effect.
ToolFails ==
  \E i \in DOMAIN RunSteps :
    /\ pc = RunSteps[i]
    /\ RunSteps[i] \notin WriteSteps
    /\ log' = log \o StepLog(pc)
    /\ exc' = "ExecuteError"
    /\ exc_at' = pc
    /\ pc' = RaiseTarget(pc)
    /\ UNCHANGED <<unit, inputs, disk, layers>>

\* open(out_csv, 'w') raises PermissionError (line 28): the file is held
\* open by another program and keeps its content.
OpenFails ==
  /\ pc \in WriteSteps
  /\ log' = log \o StepLog(pc)
  /\ exc' = "PermissionError"
  /\ exc_at' = pc
  /\ pc' = RaiseTarget(pc)
  /\ UNCHANGED <<unit, inputs, disk, layers>>

\* The cursor raises RuntimeError before the last record, after k of them
\* (lines 31-34): the file was truncated, and holds the header and the rows
\* written so far.
CursorFails ==
  /\ pc \in WriteSteps
  /\ \E k \in {j \in 0..Len(WriteCall(pc).in_tab) : j = 0 \/ j < Len(WriteCall(pc).in_tab)} :
       LET w == WriteCall(pc)
       IN files' = [files EXCEPT ![w.report] =
                      writePrefix(@, w.csv_cols, w.in_tab, w.scur_flds, k)]
  /\ log' = log \o StepLog(pc)
  /\ exc' = "RuntimeError"
  /\ exc_at' = pc
  /\ pc' = RaiseTarget(pc)
  /\ UNCHANGED <<unit, inputs, disk_before, rerun, layers>>

\* Whether an except clause for class catches exception e: PermissionError,
\* ExecuteError and RuntimeError are all subclasses of Exception.
CatchesExactly(class, e) == class = e
Catches(class, e) == class = "Exception" \/ class = e

\* The except clauses (lines 151-159); an exception no clause catches ends
\* the process with a traceback.
ExceptClauses ==
  /\ pc = "except"
  /\ IF Catches("PermissionError", exc)
     THEN /\ log' = log \o <<Error("PERMISSION ERROR"), Error(exc),
                             Error("Ensure all previously created CSVs are closed!"),
                             Error("Check that supporting data is not open in another program (ArcGIS Pro/Map/Catalog)!")>>
          /\ pc' = "finish"
     ELSE IF Catches("Exception", exc)
     THEN /\ log' = log \o <<Error("EXCEPTION OCCURRED"), Error(exc)>>
          /\ pc' = "finish"
     ELSE /\ log' = log
          /\ pc' = "crashed"
  /\ UNCHANGED <<unit, inputs, exc, exc_at, disk, layers>>

Separator == "---------------------------------------------------------\n"

Finish ==
  /\ pc = "finish"
  /\ log' = log \o <<Info("Finished run"), Info(Separator)>>
  /\ pc' = "done"
  /\ UNCHANGED <<unit, inputs, exc, exc_at, disk, layers>>

\* The script is run a second time, in a new process, on the same inputs and
\* the same day, after a run that completed: the in_memory workspace and the
\* console are new, the output directory and the scratch geodatabase are as
\* the first run left them.
Rerun ==
  /\ pc = "done"
  /\ exc = "none"
  /\ ~ rerun
  /\ rerun' = TRUE
  /\ disk_before' = files
  /\ pc' = "start"
  /\ log' = << >>
  /\ xy_fc' = NoLayer
  /\ check_cnt' = 0
  /\ bnd_w_fire' = {}
  /\ sum_within' = {}
  /\ stat_tab' = << >>
  /\ near' = {}
  /\ bnd_lines' = {}
  /\ select_fires' = {}
  /\ UNCHANGED <<unit, inputs, exc, exc_at, files, fires_pnt, avg_dist>>

RunNext ==
  \/ Start
  \/ Describe
  \/ ConvertRows
  \/ ProjectPoints
  \/ CheckAlignment
  \/ SelectBoundaries
  \/ Summarize
  \/ Statistics
  \/ WriteSummary
  \/ NearTable
  \/ AverageDistances
  \/ JoinAverage
  \/ WriteAvgDist
  \/ DropJoinedField
  \/ BoundaryLines
  \/ SelectNearBorder
  \/ WriteNearBorder
  \/ ToolFails
  \/ OpenFails
  \/ CursorFails
  \/ ExceptClauses
  \/ Finish

\* One run of the script.
Spec == Init /\ [][RunNext]_vars

Next ==
  \/ RunNext
  \/ Rerun

\* The whole pipeline, both flags set as __main__ sets them (line 149), run
\* and then run again.
RerunInit == Init /\ findAvgDist /\ findNearBorder

RerunSpec == RerunInit /\ [][Next]_vars


\* A run of the script under the scheduling a single-threaded process has:
\* it keeps executing until it has no statement left.  The control flow does
\* not depend on the size of the inputs, which are kept to one row each.
LiveInit == Init /\ Len(in_csv) <= 1 /\ Cardinality(in_bnd) <= 1

LiveSpec == LiveInit /\ [][Next]_vars /\ WF_vars(Next)

\* ------------------------------------------- writeCSV called on its own
CsvRecords == [a : {1, 2}, b : {1, 2}]

CsvPrevious ==
  {NoFile,
   [exists |-> TRUE, rows |-> << >>],
   [exists |-> TRUE, rows |-> << <<"old">> >>],
   [exists |-> TRUE, rows |-> << <<"old">>, <<"old">>, <<"old">>, <<"old">>, <<"old">> >>]}

CsvInit ==
  /\ csv_call \in [prev : CsvPrevious,
                   csv_cols : {<<"A", "B">>, <<"B">>},
                   in_tab : SeqsUpTo(CsvRecords, MaxFires),
                   scur_flds : {<<"a", "b">>, <<"b", "a">>, <<"b">>}]
  /\ csv_out = csv_call.prev
  /\ pc = "writeCSV"
  /\ in_csv = << >>
  /\ in_bnd = {}
  /\ findAvgDist = FALSE
  /\ findNearBorder = FALSE
  /\ exc = "none"
  /\ exc_at = "none"
  /\ log = << >>
  /\ files = [r \in Range(Reports) |-> NoFile]
  /\ disk_before = [r \in Range(Reports) |-> NoFile]
  /\ rerun = FALSE
  /\ xy_fc = NoLayer
  /\ fires_pnt = NoLayer
  /\ check_cnt = 0
  /\ bnd_w_fire = {}
  /\ sum_within = {}
  /\ stat_tab = << >>
  /\ near = {}
  /\ avg_dist = {}
  /\ bnd_lines = {}
  /\ select_fires = {}

CallWriteCSV ==
  /\ pc = "writeCSV"
  /\ csv_out' = writeCSV(csv_call.prev, csv_call.csv_cols, csv_call.in_tab,
                         csv_call.scur_flds)
  /\ pc' = "returned"
  /\ UNCHANGED <<csv_call, inputs, exc, exc_at, log, disk, layers>>

CsvNext == CallWriteCSV

CsvSpec == CsvInit /\ [][CsvNext]_vars


\* ======================================================= the properties
\* The step the run is at, or the step that raised.
Pos == IF exc = "none" THEN pc ELSE exc_at

\* step has run to completion in the current run.
Completed(step) ==
  /\ ~ Skipped(step)
  /\ \/ exc = "none" /\ pc \in {"finish", "done"}
     \/ Pos \in Range(RunSteps) /\ StepNo(Pos) > StepNo(step)

Summary == files[Reports[1]]
AvgReport == files[Reports[2]]
BorderReport == files[Reports[3]]

\* The data rows of a report: all rows but the header.
DataRows(file) == Tail(file.rows)

\* The point geometries of the run's fire points.
Points == fires_pnt.rows
N == Len(in_csv)

InsideAny(r) == \E b \in in_bnd : Within(r, b)
InsideCountry(r, c) == \E b \in in_bnd : b.COUNTRY = c /\ Within(r, b)

\* The sum of column col over the rows of a sequence of rows.
RECURSIVE ColumnSum(_, _)
ColumnSum(rows, col) ==
  IF rows = << >> THEN 0 ELSE Head(rows)[col] + ColumnSum(Tail(rows), col)

\* The sum of the planar distances from point i to the points j..N.
RECURSIVE DistSumFrom(_, _)
DistSumFrom(i, j) ==
  IF j > N THEN 0
  ELSE (IF j = i THEN 0 ELSE Abs(Points[i].Shape - Points[j].Shape))
         + DistSumFrom(i, j + 1)

\* The attribute values of point r, as the point reports list them.
Attributes(r) == <<r.longitude, r.confidence>>

LastTwo(s) == SubSeq(s, Len(s) - 1, Len(s))

FinishedLogged ==
  /\ Len(log) >= 2
  /\ LastTwo(log) = <<Info("Finished run"), Info(Separator)>>

\* C1: every run, whether getFiresByCountry returns or raises at any step,
\* eventually ends having logged 'Finished run' and then the separator line
\* as its last two log records.
C1_FinishedRunAlwaysLogged == (pc = "start") ~> (pc = "done" /\ FinishedLogged)

C1_Witness ==
  /\ pc = "done"
  /\ exc = "PermissionError"
  /\ FinishedLogged
  /\ Len(log) > 4

WriteStepOf(i) == <<"write_summary", "write_avg", "write_near">>[i]

\* A step of a run: a report changes only at its own write step, in a run
\* that has not failed; the steps run forward in program order; and once a
\* step has raised, no file changes and no step of the run executes again.
C2_Step ==
  /\ \A i \in DOMAIN Reports :
       files'[Reports[i]] # files[Reports[i]] => pc = WriteStepOf(i) /\ exc = "none"
  /\ (pc \in Range(RunSteps) /\ pc' \in Range(RunSteps)) => StepNo(pc') > StepNo(pc)
  /\ exc # "none" => /\ files' = files
                     /\ pc' \notin Range(RunSteps) \cup {"start"}
                     /\ exc' = exc

\* After a failure, the reports whose write step comes after the failing
\* step are as the run found them.
C2_Later ==
  exc # "none" =>
    \A i \in DOMAIN Reports :
      StepNo(WriteStepOf(i)) > StepNo(exc_at) => files[Reports[i]] = disk_before[Reports[i]]

\* C2: the reports are written in the order summary, average distance, near
\* border, and a failure at any step aborts the rest of the run: the reports
\* after the failing step are as the run found them, no step is retried, and
\* the reports written before the failure keep their content.
C2_FailureAbortsRun == [](C2_Later) /\ [][C2_Step]_vars

C2_Witness ==
  /\ rerun
  /\ pc = "done"
  /\ exc = "RuntimeError"
  /\ exc_at = "write_avg"
  /\ Len(Summary.rows) >= 2
  /\ AvgReport # disk_before[Reports[2]]
  /\ Len(BorderReport.rows) >= 2

NoPointInTwoPolygons ==
  \A r \in Range(Points) : Cardinality({b \in in_bnd : Within(r, b)}) <= 1

CountTotalsMatch ==
  /\ ColumnSum(DataRows(Summary), 2) = Cardinality({i \in 1..N : InsideAny(Points[i])})
  /\ ColumnSum(DataRows(Summary), 2) = N - check_cnt

\* C3 as stated: for every set of points and polygons the Count column sums
\* to the number of points within at least one polygon, which is the number
\* of points less the outside count.
C3_Original == Completed("write_summary") => CountTotalsMatch

\* The number of (point, polygon) pairs with the point within the polygon.
ContainmentTotal ==
  Cardinality({p \in (1..N) \X in_bnd : Within(Points[p[1]], p[2])})

\* C3 as amended: the Count column sums to the number of (fire point,
\* boundary polygon) pairs with the point within the polygon; the number of
\* points within at least one polygon is the number of points less the
\* outside count, and the Count column sums to it when no point lies within
\* more than one polygon.
C3_CountTotal ==
  Completed("write_summary") =>
    /\ ColumnSum(DataRows(Summary), 2) = ContainmentTotal
    /\ Cardinality({i \in 1..N : InsideAny(Points[i])}) = N - check_cnt
    /\ NoPointInTwoPolygons => CountTotalsMatch

C3_Witness ==
  /\ Completed("write_summary")
  /\ ~ NoPointInTwoPolygons
  /\ check_cnt = 1
  /\ N = 2
  /\ Cardinality(in_bnd) = 2
  /\ ColumnSum(DataRows(Summary), 2) = 2

\* C4: the summary has exactly one row for each boundary identifier that has a
\* fire point within one of its polygons and none for any other, and the row's
\* maximum is the greatest confidence among the points within any polygon
\* carrying that identifier.
C4_OneRowPerCountryWithMax ==
  Completed("write_summary") =>
    /\ \A k \in DOMAIN DataRows(Summary) :
         \E c \in Range(Countries) : DataRows(Summary)[k][1] = c
    /\ \A c \in Range(Countries) :
         LET at == {k \in DOMAIN DataRows(Summary) : DataRows(Summary)[k][1] = c}
             within == {i \in 1..N : InsideCountry(Points[i], c)}
         IN IF within = {} THEN at = {}
            ELSE /\ Cardinality(at) = 1
                 /\ \A k \in at :
                      DataRows(Summary)[k][3] = SetMax({in_csv[i].confidence : i \in within})

C4_Witness ==
  /\ Completed("write_summary")
  /\ \E b1 \in in_bnd, b2 \in in_bnd :
       /\ b1 # b2
       /\ b1.COUNTRY = b2.COUNTRY
       /\ b1.xmax <= b2.xmin
       /\ \E i \in 1..N, j \in 1..N :
            /\ Within(Points[i], b1)
            /\ Within(Points[j], b2)
            /\ in_csv[i].confidence < in_csv[j].confidence
  /\ Len(DataRows(Summary)) = 1
  /\ DataRows(Summary)[1][3] = 90

\* Whether the attribute row of point r is among the data rows of a report.
Listed(file, r) ==
  \E k \in DOMAIN DataRows(file) : SubSeq(DataRows(file)[k], 1, 2) = Attributes(r)

\* C5: with the near-border flag set, a fire point is in the near-border
\* report exactly when its planar distance to the nearest boundary line of
\* the boundary layer is at most the threshold.
C5_NearBorderIff ==
  Completed("write_near") =>
    \A i \in 1..N :
      Listed(BorderReport, Points[i])
        <=> \E l \in PolygonToLine(in_bnd) : Abs(Points[i].Shape - l) <= dist

C7_SecondRunSameFiles ==
  (rerun /\ pc = "done" /\ exc = "none") => files = disk_before

C7_Witness ==
  /\ rerun
  /\ pc = "done"
  /\ exc = "none"
  /\ findAvgDist
  /\ findNearBorder
  /\ Len(Summary.rows) = 3
  /\ Len(AvgReport.rows) = 3
  /\ Len(BorderReport.rows) >= 2

OutsidePoints ==
  IF Completed("project") THEN {i \in 1..N : ~ InsideAny(Points[i])} ELSE {}

WarningLogged ==
  \E k \in DOMAIN log :
    log[k] = Warning(ToString(Cardinality(OutsidePoints))
                       \o " point(s) fall outside of boundaries!")

RunCompleted == pc = "done" /\ exc = "none"

ContainmentPairs(c) ==
  Cardinality({p \in (1..N) \X in_bnd : p[2].COUNTRY = c /\ Within(Points[p[1]], p[2])})

CsvReturned == pc = "returned"

\* C9: when writeCSV returns, the destination file holds the header as its
\* first row and then one row per input record, in input order, with the
\* values of the cursor fields; nothing else, whatever the file held before.
C9_HeaderThenRows ==
  CsvReturned =>
    /\ csv_out.exists
    /\ Len(csv_out.rows) = 1 + Len(csv_call.in_tab)
    /\ csv_out.rows[1] = csv_call.csv_cols
    /\ \A i \in DOMAIN csv_call.in_tab :
         /\ Len(csv_out.rows[i + 1]) = Len(csv_call.scur_flds)
         /\ \A j \in DOMAIN csv_call.scur_flds :
              csv_out.rows[i + 1][j] = csv_call.in_tab[i][csv_call.scur_flds[j]]

C9_Witness ==
  /\ CsvReturned
  /\ csv_call.prev.exists
  /\ Len(csv_call.prev.rows) > 3
  /\ Len(csv_call.in_tab) = 2
  /\ csv_call.in_tab[1] # csv_call.in_tab[2]
  /\ csv_call.scur_flds = <<"b", "a">>
  /\ csv_out.rows = <<csv_call.csv_cols, <<2, 1>>, <<1, 1>> >>

\* C10: once the average-distance step has completed the point layer has the
\* fields it had before the step, and a near-border report written after it
\* has the original point attributes as its columns, without the average.
C10_JoinedFieldRemoved ==
  /\ Completed("delete") => /\ ListFields(fires_pnt) = ListFields(xy_fc)
                            /\ \A i \in DOMAIN Points :
                                 DOMAIN Points[i] = DOMAIN xy_fc.rows[i]
  /\ (Completed("delete") /\ Completed("write_near")) =>
       /\ BorderReport.rows[1] = <<x_fld, confidence_fld>>
       /\ \A k \in DOMAIN BorderReport.rows : Len(BorderReport.rows[k]) = 2

C10_Witness ==
  /\ RunCompleted
  /\ findAvgDist
  /\ findNearBorder
  /\ Len(AvgReport.rows[1]) = 3
  /\ Len(BorderReport.rows) >= 2

====
